---- MODULE Spec2Model ----
(***************************************************************************)
(* Model of wikidata.py: the cache-aware batched resolver get_entities,   *)
(* and the Entity class (load_entity, load_dependencies, claims,          *)
(* parse_snak) built on it.                                               *)
(*                                                                         *)
(* Identifiers are naturals; their numeric order stands for the string    *)
(* order of the identifiers (the order json.dump(sort_keys=True) uses).   *)
(***************************************************************************)
EXTENDS Naturals, Integers, Sequences, FiniteSets, TLC

\* ------------------------------------------------------------------ bounds
MaxLen == 3      \* longest short identifier list passed to get_entities
MaxFill == 51    \* number of filler identifiers (long lists)
MaxClaims == 1   \* most Statements in the document of ItemA
MaxOps == 3      \* top-level operations of the driver in one run
MaxDepth == 3    \* recursion limit of the interpreter (nested claim renderings)

\* ------------------------------------------------------- program constants
WIKIBASE_ITEM_DATA_TYPE == "wikibase-item"
WIKIBASE_API_MAX_IDS == 50
INTERESTING_DATA_TYPES == {"time", "quantity", "string", WIKIBASE_ITEM_DATA_TYPE}

\* ------------------------------------------------------------- identifiers
PropP == 1       \* a property of the graph
PropR == 2       \* a property of the graph
ItemA == 3       \* an item whose claims reference ItemB
ItemB == 4       \* an item whose claims reference ItemA
ItemM == 5       \* an identifier absent from the remote graph
FirstFill == 6
FillIds == FirstFill .. (FirstFill + MaxFill - 1)
Ids == {PropP, PropR, ItemA, ItemB, ItemM} \cup FillIds

\* -------------------------------------------------------------- data model
NoValue == [id |-> 0, text |-> ""]
ItemValue(i) == [id |-> i, text |-> ""]
TextValue(s) == [id |-> 0, text |-> s]

\* a Snak; value is meaningful only when snaktype = "value" (the JSON has no
\* "datavalue" key otherwise)
MkSnak(p, dt, st, v) == [property |-> p, datatype |-> dt, snaktype |-> st, value |-> v]

\* a Statement: mainsnak, and the qualifier snaks flattened in the order of
\* "qualifiers-order" (the snaks of one qualifier property are contiguous)
MkStatement(m, qs) == [mainsnak |-> m, qualifiers |-> qs]

\* an entity document of the remote service
MkEntity(i, l, cs) == [id |-> i, kind |-> "entity", label |-> l, claims |-> cs]
\* the error marker the remote service returns for an unknown identifier:
\* {"id": ..., "missing": ""}, it has no "labels" and no "claims"
MissingMarker(i) == [id |-> i, kind |-> "missing", label |-> "None", claims |-> <<>>]
NoDoc == [id |-> 0, kind |-> "none", label |-> "None", claims |-> <<>>]

\* a file of the data directory
AbsentFile == [state |-> "absent", doc |-> NoDoc]
EmptyFile == [state |-> "empty", doc |-> NoDoc]
FullFile(d) == [state |-> "full", doc |-> d]

\* -------------------------------------------------------- sequence helpers
RECURSIVE Range(_, _)
Range(a, n) == IF n <= 0 THEN <<>> ELSE <<a>> \o Range(a + 1, n - 1)

Elems(s) == {s[i] : i \in 1..Len(s)}

RECURSIVE SeqsUpTo(_, _)
SeqsUpTo(S, n) ==
  IF n = 0 THEN {<<>>}
  ELSE LET shorter == SeqsUpTo(S, n - 1)
       IN shorter \cup {Append(s, x) : s \in {t \in shorter : Len(t) = n - 1}, x \in S}

Min(a, b) == IF a < b THEN a ELSE b

\* ------------------------------------------------------------ json.dump/load
\* json.dump(..., sort_keys=True) writes the keys of every JSON object in
\* sorted order and json.load keeps the order of the file: the "claims"
\* object (property -> Statements) comes back with its groups ordered by
\* property, the Statements of one property in their original order.
RECURSIVE GroupsFrom(_, _)
GroupsFrom(cs, p) ==
  IF p > PropR THEN <<>>
  ELSE SelectSeq(cs, LAMBDA c : c.mainsnak.property = p) \o GroupsFrom(cs, p + 1)

SortKeys(doc) == [doc EXCEPT !.claims = GroupsFrom(doc.claims, PropP)]

JsonRoundTrip(doc) == SortKeys(doc)

\* the values of the "qualifiers" object of a cached Statement, chained:
\* groups ordered by qualifier property (sorted keys), not by qualifiers-order
RECURSIVE QualifierGroupsFrom(_, _)
QualifierGroupsFrom(qs, p) ==
  IF p > PropR THEN <<>>
  ELSE SelectSeq(qs, LAMBDA q : q.property = p) \o QualifierGroupsFrom(qs, p + 1)

QualifierValues(claim) == QualifierGroupsFrom(claim.qualifiers, PropP)

\* ------------------------------------------------------------ remote graph
\* the Statements the document of ItemA is built from
StatementChoices ==
  { MkStatement(MkSnak(PropP, WIKIBASE_ITEM_DATA_TYPE, "value", ItemValue(ItemB)), <<>>),
    MkStatement(MkSnak(PropR, "string", "value", TextValue("s")),
                << MkSnak(PropR, "string", "value", TextValue("q")),
                   MkSnak(PropP, WIKIBASE_ITEM_DATA_TYPE, "value", ItemValue(ItemB)) >>),
    MkStatement(MkSnak(PropP, "external-id", "value", TextValue("x")),
                << MkSnak(PropR, WIKIBASE_ITEM_DATA_TYPE, "value", ItemValue(FirstFill)) >>),
    MkStatement(MkSnak(PropP, WIKIBASE_ITEM_DATA_TYPE, "novalue", NoValue), <<>>),
    MkStatement(MkSnak(PropR, "time", "somevalue", NoValue),
                << MkSnak(PropP, "external-id", "value", TextValue("y")),
                   MkSnak(PropP, WIKIBASE_ITEM_DATA_TYPE, "novalue", NoValue) >>),
    MkStatement(MkSnak(PropR, WIKIBASE_ITEM_DATA_TYPE, "value", ItemValue(ItemM)), <<>>) }

\* a quantity Statement: its value is an object holding "amount" and "unit";
\* its qualifiers are declared in the order PropR, PropP (qualifiers-order)
QuantityStatement ==
  MkStatement(MkSnak(PropR, "quantity", "value", TextValue("5")),
              << MkSnak(PropR, "time", "value", TextValue("t")),
                 MkSnak(PropP, "external-id", "value", TextValue("y")),
                 MkSnak(PropP, "string", "value", TextValue("q")) >>)

\* a Statement whose qualifiers all parse to None
BareQualifiedStatement ==
  MkStatement(MkSnak(PropP, "string", "value", TextValue("s")),
              << MkSnak(PropR, "external-id", "value", TextValue("y")),
                 MkSnak(PropP, WIKIBASE_ITEM_DATA_TYPE, "novalue", NoValue) >>)

\* a document of several Statements: the remote service lists the Statements
\* of PropR before those of PropP
FixedClaimLists ==
  { << QuantityStatement,
       MkStatement(MkSnak(PropP, "external-id", "value", TextValue("x")), <<>>),
       MkStatement(MkSnak(PropP, WIKIBASE_ITEM_DATA_TYPE, "value", ItemValue(ItemB)), <<>>),
       BareQualifiedStatement >> }

ClaimLists == SeqsUpTo(StatementChoices, MaxClaims) \cup FixedClaimLists

\* the remote graph: ItemM is absent from it
Graph(claimsOfA) ==
  [i \in Ids |->
     IF i = ItemA THEN MkEntity(ItemA, "a", claimsOfA)
     ELSE IF i = ItemB THEN
       MkEntity(ItemB, "b",
         << MkStatement(MkSnak(PropP, WIKIBASE_ITEM_DATA_TYPE, "value", ItemValue(ItemA)), <<>>) >>)
     ELSE IF i = PropP THEN MkEntity(PropP, "p", <<>>)
     ELSE IF i = PropR THEN MkEntity(PropR, "None", <<>>)
     ELSE IF i = ItemM THEN NoDoc
     ELSE MkEntity(i, "f", <<>>)]

\* ------------------------------------------------------------------- state
VARIABLES
  remote,        \* the remote graph: identifier -> document (NoDoc: absent)
  cache,         \* the data directory: identifier -> file
  top,           \* what the driver is doing
  ops,           \* number of top-level operations the driver has started
  outcome,       \* how the last top-level operation ended
  result,        \* the value the last direct get_entities call returned
  pc,            \* position inside get_entities
  ctx,           \* the caller get_entities returns to
  ids,           \* get_entities: the argument
  nonlocal_ids,  \* get_entities: result of get_non_local_ids
  chunkIdx,      \* get_entities: index of the chunk the generator is at
  pending,       \* store_entites_locally: entities not yet written
  entities,      \* get_local_entities: the list built so far
  entity,        \* the Entity object the driver holds
  self,          \* Entity.__init__ in progress: the object under construction
  rstack,        \* the running claims generators, innermost last
  rendered,      \* the tuples yielded by the last completed claims iteration
  reqLog,        \* history: the chunks requested by the current get_entities call
  presentAtCall, \* history: identifiers present when the current call began
  failedAt,      \* history: chunk whose request failed in the last operation, else 0
  resolved,      \* history: identifiers of the calls that returned normally
  nested,        \* history: entities constructed by the current claims iteration
  renderFetched, \* history: iterating the claims of entity issued a remote request
  written,       \* history: identifiers whose record the current call has written
  peer           \* a second process running get_entities on the same data directory

vars == << remote, cache, top, ops, outcome, result, pc, ctx, ids, nonlocal_ids,
           chunkIdx, pending, entities, entity, self, rstack, rendered,
           reqLog, presentAtCall, failedAt, resolved, nested, renderFetched,
           written, peer >>

frame == << ids, nonlocal_ids, chunkIdx, pending, entities >>
objects == << entity, self, rstack, rendered >>
renderHistory == << nested, renderFetched >>

\* os.path.exists(file_path)
Exists(c, i) == c[i].state # "absent"

Present(c) == {i \in Ids : Exists(c, i)}

\* ------------------------------------------------------------- get_entities
\* get_non_local_ids without the existence check of line 60
get_non_local_ids_unchecked(c, is) == is

\* get_non_local_ids, lines 56-62
RECURSIVE get_non_local_ids(_, _)
get_non_local_ids(c, is) ==
  IF is = <<>> THEN <<>>
  ELSE IF ~Exists(c, Head(is))
       THEN <<Head(is)>> \o get_non_local_ids(c, Tail(is))
       ELSE get_non_local_ids(c, Tail(is))

\* batches: range(0, len(ids), WIKIBASE_API_MAX_IDS), ids[ii : ii + MAX]
RECURSIVE batches(_)
batches(is) ==
  IF is = <<>> THEN <<>>
  ELSE <<SubSeq(is, 1, Min(Len(is), WIKIBASE_API_MAX_IDS))>>
       \o batches(SubSeq(is, Min(Len(is), WIKIBASE_API_MAX_IDS) + 1, Len(is)))

\* line 73 with a chain that is built lazily and never iterated
FetchedChunksUnconsumed(nl) == <<>>

\* line 73: the argument unpacking *( ... ) runs the generator to its end,
\* calling fetch_batch on every chunk in order, before chain() is built
FetchedChunks(nl) == batches(nl)

\* result.json()["entities"].values(): one entity per distinct requested
\* identifier, in request order; withMarkers says whether the service lists
\* unknown identifiers with an error marker or leaves them out
RECURSIVE ResponseEntities(_, _, _, _)
ResponseEntities(g, chunk, seen, withMarkers) ==
  IF chunk = <<>> THEN <<>>
  ELSE LET i == Head(chunk)
           rest == ResponseEntities(g, Tail(chunk), seen \cup {i}, withMarkers)
       IN IF i \in seen THEN rest
          ELSE IF g[i].kind = "entity" THEN <<g[i]>> \o rest
          ELSE IF withMarkers THEN <<MissingMarker(i)>> \o rest
          ELSE rest

\* get_entities(is) is entered for caller k
Enter(is, k) ==
  /\ pc' = "scan"
  /\ ctx' = k
  /\ ids' = is
  /\ nonlocal_ids' = <<>>
  /\ chunkIdx' = 1
  /\ pending' = <<>>
  /\ entities' = <<>>
  /\ reqLog' = <<>>
  /\ presentAtCall' = Present(cache)
  /\ failedAt' = 0
  /\ written' = {}

\* an exception leaves get_entities and every caller: nothing catches it
Raise ==
  /\ pc' = "idle"
  /\ ctx' = "none"
  /\ top' = "idle"
  /\ outcome' = "raised"
  /\ rstack' = <<>>

ShortInputs == SeqsUpTo({ItemA, ItemM}, MaxLen)

LongInputs ==
  { Range(FirstFill, MaxFill - 1),
    Range(FirstFill, MaxFill),
    <<ItemA>> \o Range(FirstFill, MaxFill - 2) \o <<ItemA>> }

\* the driver calls get_entities(is)
Call(is) ==
  /\ top = "idle"
  /\ ops < MaxOps
  /\ Enter(is, "direct")
  /\ top' = "direct"
  /\ ops' = ops + 1
  /\ outcome' = "running"
  /\ result' = <<>>
  /\ UNCHANGED << remote, peer, cache, objects, resolved, renderHistory >>

DirectCall == \E is \in ShortInputs : Call(is)

BatchCall == \E is \in LongInputs : Call(is)

\* line 72
GetNonLocalIds ==
  /\ pc = "scan"
  /\ nonlocal_ids' = get_non_local_ids(cache, ids)
  /\ pc' = "fetch"
  /\ UNCHANGED << remote, peer, cache, top, ops, outcome, result, ctx, ids, chunkIdx,
                  pending, entities, objects, reqLog, presentAtCall, written, failedAt, resolved,
                  renderHistory >>

\* line 40 with the failure of a chunk caught and the chunk skipped
FetchFailureSkipped ==
  /\ pending' = <<>>
  /\ pc' = "store"
  /\ UNCHANGED << top, ctx, outcome, rstack >>

\* line 40: requests.get (or the decoding of its result) raises; neither
\* fetch_batch nor get_entities catches it
FetchFailure ==
  /\ Raise
  /\ UNCHANGED pending

\* fetch_batch, lines 29-41: requests.get and result.json()["entities"]
FetchBatch ==
  /\ pc = "fetch"
  /\ chunkIdx <= Len(FetchedChunks(nonlocal_ids))
  /\ LET chunk == FetchedChunks(nonlocal_ids)[chunkIdx]
     IN /\ reqLog' = Append(reqLog, chunk)
        /\ \/ \E withMarkers \in BOOLEAN :
                /\ pending' = ResponseEntities(remote, chunk, {}, withMarkers)
                /\ pc' = "store"
                /\ UNCHANGED << top, ctx, outcome, rstack, failedAt >>
           \/ /\ FetchFailure
              /\ failedAt' = chunkIdx
  /\ renderFetched' = (renderFetched \/ top = "claims")
  /\ UNCHANGED << remote, peer, cache, ops, result, ids, nonlocal_ids, chunkIdx, entities,
                  entity, self, rendered, presentAtCall, written, resolved, nested >>

\* line 49 with the record written only when no file of its name exists
WritesRecordIfAbsent(c, e) == ~Exists(c, e.id)

\* lines 47-49: every entity of the response is written; nothing is tested
\* before the file is opened for writing
WritesRecord(c, e) == TRUE

\* store_entites_locally, line 49: open(file_path, "w") creates or truncates
OpenFile ==
  /\ pc = "store"
  /\ pending # <<>>
  /\ IF WritesRecord(cache, Head(pending))
     THEN /\ cache' = [cache EXCEPT ![Head(pending).id] = EmptyFile]
          /\ pc' = "dump"
          /\ UNCHANGED pending
     ELSE /\ pending' = Tail(pending)
          /\ UNCHANGED << cache, pc >>
  /\ UNCHANGED << remote, peer, top, ops, outcome, result, ctx, ids, nonlocal_ids,
                  chunkIdx, entities, objects, reqLog, presentAtCall, written,
                  failedAt, resolved, renderHistory >>

\* store_entites_locally, line 49: json.dump(entity, file, sort_keys=True)
DumpFile ==
  /\ pc = "dump"
  /\ cache' = [cache EXCEPT ![Head(pending).id] = FullFile(JsonRoundTrip(Head(pending)))]
  /\ pending' = Tail(pending)
  /\ pc' = "store"
  /\ written' = written \cup {Head(pending).id}
  /\ UNCHANGED << remote, peer, top, ops, outcome, result, ctx, ids, nonlocal_ids, chunkIdx,
                  entities, objects, reqLog, presentAtCall, failedAt, resolved, renderHistory >>

\* fetch_batch returns; the generator moves to the next chunk
NextChunk ==
  /\ pc = "store"
  /\ pending = <<>>
  /\ chunkIdx' = chunkIdx + 1
  /\ pc' = "fetch"
  /\ UNCHANGED << remote, peer, cache, top, ops, outcome, result, ctx, ids, nonlocal_ids,
                  pending, entities, objects, reqLog, presentAtCall, written, failedAt, resolved,
                  renderHistory >>

\* the generator is exhausted: line 74 starts get_local_entities
StartRead ==
  /\ pc = "fetch"
  /\ chunkIdx > Len(FetchedChunks(nonlocal_ids))
  /\ pc' = "read"
  /\ UNCHANGED << remote, peer, cache, top, ops, outcome, result, ctx, frame, objects,
                  reqLog, presentAtCall, written, failedAt, resolved, renderHistory >>

\* line 74 with get_local_entities called on the fetched identifiers only
ReadListFetched(is, nl) == nl

\* line 74: get_local_entities is called on the whole argument of the call
ReadList(is, nl) == is

\* get_local_entities, lines 66-69: json.load(open(file_path)) of the next id;
\* open raises on an absent file, json.load on an empty one
ReadLocal ==
  /\ pc = "read"
  /\ Len(entities) < Len(ReadList(ids, nonlocal_ids))
  /\ LET i == ReadList(ids, nonlocal_ids)[Len(entities) + 1]
     IN IF cache[i].state = "full"
        THEN /\ entities' = Append(entities, cache[i].doc)
             /\ UNCHANGED << pc, top, ctx, outcome, rstack >>
        ELSE /\ Raise
             /\ UNCHANGED entities
  /\ UNCHANGED << remote, peer, cache, ops, result, ids, nonlocal_ids, chunkIdx, pending,
                  entity, self, rendered, reqLog, presentAtCall, written, failedAt, resolved,
                  renderHistory >>

\* get_local_entities has read every identifier: line 75 returns
ReadDone == pc = "read" /\ Len(entities) = Len(ReadList(ids, nonlocal_ids))

\* line 75, returning to a direct caller
ReturnDirect ==
  /\ ReadDone
  /\ ctx = "direct"
  /\ result' = entities
  /\ resolved' = resolved \cup Elems(ids)
  /\ pc' = "idle"
  /\ ctx' = "none"
  /\ top' = "idle"
  /\ outcome' = "returned"
  /\ UNCHANGED << remote, peer, cache, ops, frame, objects, reqLog, presentAtCall, written,
                  failedAt, renderHistory >>

\* ------------------------------------------------------------------ Entity
NoEntity == [data |-> NoDoc, deep |-> FALSE]

EntityIds == {ItemA, ItemM}

\* load_dependencies without lines 113-114: qualifier properties only
RECURSIVE QualifierDepsProperties(_)
QualifierDepsProperties(qs) ==
  IF qs = <<>> THEN <<>>
  ELSE (IF Head(qs).snaktype # "value" THEN <<>> ELSE <<Head(qs).property>>)
       \o QualifierDepsProperties(Tail(qs))

\* load_dependencies, lines 108-114: the identifiers of the qualifier snaks
RECURSIVE QualifierDeps(_)
QualifierDeps(qs) ==
  IF qs = <<>> THEN <<>>
  ELSE LET qualifier == Head(qs)
       IN (IF qualifier.snaktype # "value" THEN <<>>
           ELSE <<qualifier.property>>
                \o (IF qualifier.datatype = WIKIBASE_ITEM_DATA_TYPE
                    THEN <<qualifier.value.id>> ELSE <<>>))
          \o QualifierDeps(Tail(qs))

\* load_dependencies, lines 95-114: the identifiers of one Statement
ClaimDeps(claim) ==
  LET snak == claim.mainsnak
  IN IF snak.datatype \notin INTERESTING_DATA_TYPES THEN <<>>
     ELSE <<snak.property>>
          \o (IF snak.datatype = WIKIBASE_ITEM_DATA_TYPE THEN <<snak.value.id>> ELSE <<>>)
          \o QualifierDeps(QualifierValues(claim))

\* load_dependencies, lines 91-114: the list passed to get_entities
RECURSIVE Dependencies(_)
Dependencies(claims) ==
  IF claims = <<>> THEN <<>>
  ELSE ClaimDeps(Head(claims)) \o Dependencies(Tail(claims))

\* load_dependencies raises KeyError: the error marker has no "claims"
\* (line 92), an interesting item mainsnak without value has no "datavalue"
\* (line 103)
DependenciesRaise(data) ==
  \/ data.kind # "entity"
  \/ \E k \in 1..Len(data.claims) :
       /\ data.claims[k].mainsnak.datatype = WIKIBASE_ITEM_DATA_TYPE
       /\ data.claims[k].mainsnak.snaktype # "value"

\* the driver constructs Entity(i, deep): __init__ calls load_entity
NewEntity ==
  /\ top = "idle"
  /\ ops < MaxOps
  /\ \E i \in EntityIds, d \in BOOLEAN :
       /\ Enter(<<i>>, "load_entity")
       /\ self' = [data |-> NoDoc, deep |-> d]
  /\ top' = "init"
  /\ ops' = ops + 1
  /\ outcome' = "running"
  /\ UNCHANGED << remote, peer, cache, result, entity, rstack, rendered, resolved,
                  renderHistory >>

\* load_entity returns (line 87-88); __init__ ends or calls load_dependencies,
\* which builds the dependency list and calls get_entities (line 116)
ReturnLoadEntity ==
  /\ ReadDone
  /\ ctx = "load_entity"
  /\ resolved' = resolved \cup Elems(ids)
  /\ LET data == entities[1]
     IN IF ~self.deep
        THEN /\ entity' = [data |-> data, deep |-> FALSE]
             /\ self' = NoEntity
             /\ pc' = "idle"
             /\ ctx' = "none"
             /\ top' = "idle"
             /\ outcome' = "returned"
             /\ renderFetched' = FALSE
             /\ UNCHANGED << frame, reqLog, presentAtCall, written, failedAt, rstack >>
        ELSE IF DependenciesRaise(data)
        THEN /\ Raise
             /\ self' = NoEntity
             /\ UNCHANGED << entity, frame, reqLog, presentAtCall, written, failedAt,
                             renderFetched >>
        ELSE /\ Enter(Dependencies(data.claims), "load_dependencies")
             /\ self' = [self EXCEPT !.data = data]
             /\ UNCHANGED << entity, top, outcome, rstack, renderFetched >>
  /\ UNCHANGED << remote, peer, cache, ops, result, rendered, nested >>

\* line 116 returns: load_dependencies and __init__ end
ReturnLoadDependencies ==
  /\ ReadDone
  /\ ctx = "load_dependencies"
  /\ resolved' = resolved \cup Elems(ids)
  /\ entity' = [data |-> self.data, deep |-> TRUE]
  /\ self' = NoEntity
  /\ pc' = "idle"
  /\ ctx' = "none"
  /\ top' = "idle"
  /\ outcome' = "returned"
  /\ renderFetched' = FALSE
  /\ UNCHANGED << remote, peer, cache, ops, result, frame, rstack, rendered, reqLog,
                  presentAtCall, written, failedAt, nested >>

\* ---------------------------------------------------- claims and parse_snak
NoTuple == [property |-> "", value |-> [shape |-> "", text |-> ""]]
Tuple(p, v) == [property |-> p, value |-> v]

\* the local state of one running claims generator
NewFrame(d) ==
  [data |-> d, claimIdx |-> 1, snakIdx |-> 0, propLabel |-> "", main |-> NoTuple,
   quals |-> <<>>, out |-> <<>>]

Top(st) == st[Len(st)]
SetTop(st, f) == [st EXCEPT ![Len(st)] = f]

\* lines 139-141 with the qualifier groups taken as the "qualifiers" object of
\* the cached record lists them
QualifiersOrderSorted(claim) == QualifierValues(claim)

\* lines 139-141: the qualifier snaks in the order of "qualifiers-order", a
\* list, which json.dump leaves in its order
QualifiersOrder(claim) == claim.qualifiers

\* the Statement the generator is at (line 133) and the snak parse_snak is
\* called on: the mainsnak (line 134) or the next qualifier in
\* qualifiers-order (lines 139-142)
InClaim(f) == f.claimIdx <= Len(f.data.claims)
CurClaim(f) == f.data.claims[f.claimIdx]
InSnak(f) == InClaim(f) /\ f.snakIdx <= Len(CurClaim(f).qualifiers)
CurSnak(f) ==
  IF f.snakIdx = 0 THEN CurClaim(f).mainsnak
  ELSE QualifiersOrder(CurClaim(f))[f.snakIdx]

\* lines 186-193 for a snak that is not an item reference: the string of a
\* "time" snak, the value as it is for every other datatype (no datatype is
\* called "amount")
ParsedValue(snak) ==
  IF snak.datatype = "amount" THEN [shape |-> "str", text |-> snak.value.text]
  ELSE IF snak.datatype = "time" THEN [shape |-> "str", text |-> snak.value.text]
  ELSE IF snak.datatype = "string" THEN [shape |-> "str", text |-> snak.value.text]
  ELSE [shape |-> "dict", text |-> snak.value.text]

\* label, lines 118-120
Label(data) == [shape |-> "str", text |-> data.label]

\* line 189 with the claims of the referenced entity rendered as the value
ReferencedEntityAccessClaims(data) == "claims"

\* line 189: of the referenced entity parse_snak reads the label only
ReferencedEntityAccess(data) == "label"

\* lines 134-144: parse_snak has returned for the current snak
AfterSnak(f, isNone, t) ==
  IF f.snakIdx = 0
  THEN IF isNone THEN [f EXCEPT !.claimIdx = @ + 1]
       ELSE [f EXCEPT !.main = t, !.snakIdx = 1, !.quals = <<>>, !.propLabel = ""]
  ELSE [f EXCEPT !.quals = IF isNone THEN @ ELSE Append(@, t),
                 !.snakIdx = @ + 1, !.propLabel = ""]

\* lines 146-148
Yielded(m, qs) ==
  [property |-> m.property, value |-> m.value, qualifiers |-> qs,
   arity |-> IF qs # <<>> THEN 3 ELSE 2]

\* the driver starts iterating entity.claims; line 132 raises KeyError on the
\* error marker, which has no "claims"
StartClaims ==
  /\ top = "idle"
  /\ ops < MaxOps
  /\ entity # NoEntity
  /\ ops' = ops + 1
  /\ nested' = 0
  /\ renderFetched' = FALSE
  /\ rendered' = <<>>
  /\ IF entity.data.kind # "entity"
     THEN /\ top' = "idle"
          /\ outcome' = "raised"
          /\ rstack' = <<>>
     ELSE /\ top' = "claims"
          /\ outcome' = "running"
          /\ rstack' = <<NewFrame(entity.data)>>
  /\ failedAt' = 0
  /\ UNCHANGED << remote, peer, cache, result, pc, ctx, frame, entity, self, reqLog,
                  presentAtCall, written, resolved >>

\* parse_snak with the test of lines 179-180 left out
ReturnsNoneBySnaktype(snak) == snak.snaktype # "value"

\* parse_snak, lines 177-183: the snaks parse_snak returns None for
ReturnsNone(snak) ==
  snak.datatype \notin INTERESTING_DATA_TYPES \/ snak.snaktype # "value"

\* parse_snak, lines 177-185: None for an uninteresting datatype or a snak
\* without value, else Entity(snak["property"]) is constructed
ParseSnak ==
  /\ top = "claims"
  /\ pc = "idle"
  /\ rstack # <<>>
  /\ InSnak(Top(rstack))
  /\ LET f == Top(rstack)
         snak == CurSnak(f)
     IN IF ReturnsNone(snak)
        THEN /\ rstack' = SetTop(rstack, AfterSnak(f, TRUE, NoTuple))
             /\ UNCHANGED << pc, ctx, frame, reqLog, presentAtCall, written, failedAt, nested >>
        ELSE /\ Enter(<<snak.property>>, "snak_property")
             /\ nested' = nested + 1
             /\ UNCHANGED rstack
  /\ UNCHANGED << remote, peer, cache, top, ops, outcome, result, entity, self, rendered,
                  resolved, renderFetched >>

\* parse_snak, lines 185-195: the label of the property entity (KeyError on
\* the error marker, which has no "labels"), then the value
ReturnSnakProperty ==
  /\ ReadDone
  /\ ctx = "snak_property"
  /\ resolved' = resolved \cup Elems(ids)
  /\ LET f == Top(rstack)
         snak == CurSnak(f)
         data == entities[1]
     IN IF data.kind # "entity"
        THEN /\ Raise
             /\ UNCHANGED << frame, reqLog, presentAtCall, written, failedAt, nested >>
        ELSE IF snak.datatype = WIKIBASE_ITEM_DATA_TYPE
        THEN /\ Enter(<<snak.value.id>>, "snak_value")
             /\ nested' = nested + 1
             /\ rstack' = SetTop(rstack, [f EXCEPT !.propLabel = data.label])
             /\ UNCHANGED << top, outcome >>
        ELSE /\ rstack' = SetTop(rstack,
                    AfterSnak(f, FALSE, Tuple(data.label, ParsedValue(snak))))
             /\ pc' = "idle"
             /\ ctx' = "none"
             /\ UNCHANGED << top, outcome, frame, reqLog, presentAtCall, written, failedAt, nested >>
  /\ UNCHANGED << remote, peer, cache, ops, result, entity, self, rendered, renderFetched >>

\* parse_snak, lines 189 and 195: the label of the referenced entity
ReturnSnakValue ==
  /\ ReadDone
  /\ ctx = "snak_value"
  /\ resolved' = resolved \cup Elems(ids)
  /\ LET f == Top(rstack)
         data == entities[1]
     IN IF data.kind # "entity"
        THEN /\ Raise
             /\ UNCHANGED nested
        ELSE IF ReferencedEntityAccess(data) = "claims"
        THEN IF Len(rstack) >= MaxDepth
             THEN /\ Raise
                  /\ UNCHANGED nested
             ELSE /\ rstack' = Append(rstack, NewFrame(data))
                  /\ pc' = "idle"
                  /\ ctx' = "none"
                  /\ UNCHANGED << top, outcome, nested >>
        ELSE /\ rstack' = SetTop(rstack,
                    AfterSnak(f, FALSE, Tuple(f.propLabel, Label(data))))
             /\ pc' = "idle"
             /\ ctx' = "none"
             /\ UNCHANGED << top, outcome, nested >>
  /\ UNCHANGED << remote, peer, cache, ops, result, frame, entity, self, rendered, reqLog,
                  presentAtCall, written, failedAt, renderFetched >>

\* lines 146-148: the Statement's tuple is yielded, the loop goes on
YieldClaim ==
  /\ top = "claims"
  /\ pc = "idle"
  /\ rstack # <<>>
  /\ InClaim(Top(rstack))
  /\ Top(rstack).snakIdx > Len(CurClaim(Top(rstack)).qualifiers)
  /\ LET f == Top(rstack)
     IN rstack' = SetTop(rstack,
          [f EXCEPT !.out = Append(@, Yielded(f.main, f.quals)),
                    !.claimIdx = @ + 1, !.snakIdx = 0, !.quals = <<>>,
                    !.main = NoTuple])
  /\ UNCHANGED << remote, peer, cache, top, ops, outcome, result, pc, ctx, frame, entity,
                  self, rendered, reqLog, presentAtCall, written, failedAt, resolved, renderHistory >>

\* line 133: the claims are exhausted, the generator ends
EndClaims ==
  /\ top = "claims"
  /\ pc = "idle"
  /\ rstack # <<>>
  /\ ~InClaim(Top(rstack))
  /\ IF Len(rstack) = 1
     THEN /\ rendered' = Top(rstack).out
          /\ rstack' = <<>>
          /\ top' = "idle"
          /\ outcome' = "returned"
     ELSE /\ LET parent == rstack[Len(rstack) - 1]
             IN rstack' = SetTop(SubSeq(rstack, 1, Len(rstack) - 1),
                  AfterSnak(parent, FALSE,
                            Tuple(parent.propLabel, [shape |-> "claims", text |-> ""])))
          /\ UNCHANGED << top, outcome, rendered >>
  /\ UNCHANGED << remote, peer, cache, ops, result, pc, ctx, frame, entity, self, reqLog,
                  presentAtCall, written, failedAt, resolved, renderHistory >>

\* ----------------------------------------------------------- second process
\* another run of the program on the same data directory, inside get_entities
PeerIdle ==
  [pc |-> "idle", ids |-> <<>>, nonlocal_ids |-> <<>>, chunkIdx |-> 1,
   pending |-> <<>>, entities |-> <<>>, reqLog |-> <<>>, written |-> {},
   calls |-> 0, outcome |-> "none"]

\* the variables of the first process
process ==
  << top, ops, outcome, result, pc, ctx, frame, objects, reqLog, presentAtCall,
     failedAt, resolved, renderHistory, written >>

RaceInputs == {<<ItemA>>, <<ItemM>>}

\* the first process calls get_entities on a single identifier
RaceCall == \E is \in RaceInputs : Call(is)

\* the second process calls get_entities(is)
PeerCall ==
  /\ peer.pc = "idle"
  /\ peer.calls < MaxOps
  /\ \E is \in RaceInputs :
       peer' = [PeerIdle EXCEPT !.pc = "scan", !.ids = is,
                               !.calls = peer.calls + 1, !.outcome = "running"]
  /\ UNCHANGED << remote, cache, process >>

\* line 72
PeerGetNonLocalIds ==
  /\ peer.pc = "scan"
  /\ peer' = [peer EXCEPT !.nonlocal_ids = get_non_local_ids(cache, peer.ids),
                          !.pc = "fetch"]
  /\ UNCHANGED << remote, cache, process >>

\* fetch_batch, lines 29-41; a failure of line 40 ends the call
PeerFetchBatch ==
  /\ peer.pc = "fetch"
  /\ peer.chunkIdx <= Len(FetchedChunks(peer.nonlocal_ids))
  /\ LET chunk == FetchedChunks(peer.nonlocal_ids)[peer.chunkIdx]
     IN \/ \E withMarkers \in BOOLEAN :
             peer' = [peer EXCEPT !.reqLog = Append(@, chunk),
                                  !.pending = ResponseEntities(remote, chunk, {}, withMarkers),
                                  !.pc = "store"]
        \/ peer' = [peer EXCEPT !.reqLog = Append(@, chunk),
                                !.pc = "idle", !.outcome = "raised"]
  /\ UNCHANGED << remote, cache, process >>

\* store_entites_locally, line 49: open(file_path, "w")
PeerOpenFile ==
  /\ peer.pc = "store"
  /\ peer.pending # <<>>
  /\ IF WritesRecord(cache, Head(peer.pending))
     THEN /\ cache' = [cache EXCEPT ![Head(peer.pending).id] = EmptyFile]
          /\ peer' = [peer EXCEPT !.pc = "dump"]
     ELSE /\ peer' = [peer EXCEPT !.pending = Tail(@)]
          /\ UNCHANGED cache
  /\ UNCHANGED << remote, process >>

\* store_entites_locally, line 49: json.dump(entity, file, sort_keys=True)
PeerDumpFile ==
  /\ peer.pc = "dump"
  /\ cache' = [cache EXCEPT ![Head(peer.pending).id] =
                              FullFile(JsonRoundTrip(Head(peer.pending)))]
  /\ peer' = [peer EXCEPT !.pending = Tail(@), !.pc = "store",
                          !.written = @ \cup {Head(peer.pending).id}]
  /\ UNCHANGED << remote, process >>

\* fetch_batch returns; the generator moves to the next chunk
PeerNextChunk ==
  /\ peer.pc = "store"
  /\ peer.pending = <<>>
  /\ peer' = [peer EXCEPT !.chunkIdx = @ + 1, !.pc = "fetch"]
  /\ UNCHANGED << remote, cache, process >>

\* the generator is exhausted: line 74 starts get_local_entities
PeerStartRead ==
  /\ peer.pc = "fetch"
  /\ peer.chunkIdx > Len(FetchedChunks(peer.nonlocal_ids))
  /\ peer' = [peer EXCEPT !.pc = "read"]
  /\ UNCHANGED << remote, cache, process >>

\* get_local_entities, lines 66-69: open raises on an absent file, json.load
\* on an empty one
PeerReadLocal ==
  /\ peer.pc = "read"
  /\ Len(peer.entities) < Len(ReadList(peer.ids, peer.nonlocal_ids))
  /\ LET i == ReadList(peer.ids, peer.nonlocal_ids)[Len(peer.entities) + 1]
     IN IF cache[i].state = "full"
        THEN peer' = [peer EXCEPT !.entities = Append(@, cache[i].doc)]
        ELSE peer' = [peer EXCEPT !.pc = "idle", !.outcome = "raised"]
  /\ UNCHANGED << remote, cache, process >>

\* line 75
PeerReturn ==
  /\ peer.pc = "read"
  /\ Len(peer.entities) = Len(ReadList(peer.ids, peer.nonlocal_ids))
  /\ peer' = [peer EXCEPT !.pc = "idle", !.outcome = "returned"]
  /\ UNCHANGED << remote, cache, process >>

\* ------------------------------------------------------------ specification
InitWith(claimLists) ==
  /\ \E cs \in claimLists : remote = Graph(cs)
  /\ cache = [i \in Ids |-> AbsentFile]
  /\ top = "idle"
  /\ ops = 0
  /\ outcome = "none"
  /\ result = <<>>
  /\ pc = "idle"
  /\ ctx = "none"
  /\ ids = <<>>
  /\ nonlocal_ids = <<>>
  /\ chunkIdx = 1
  /\ pending = <<>>
  /\ entities = <<>>
  /\ entity = NoEntity
  /\ self = NoEntity
  /\ rstack = <<>>
  /\ rendered = <<>>
  /\ reqLog = <<>>
  /\ presentAtCall = {}
  /\ failedAt = 0
  /\ resolved = {}
  /\ nested = 0
  /\ renderFetched = FALSE
  /\ written = {}
  /\ peer = PeerIdle

\* the driver calls get_entities only, with short and long lists
InitBatch == InitWith({<<>>})

NextBatch ==
  \/ DirectCall
  \/ BatchCall
  \/ GetNonLocalIds
  \/ FetchBatch
  \/ OpenFile
  \/ DumpFile
  \/ NextChunk
  \/ StartRead
  \/ ReadLocal
  \/ ReturnDirect

SpecBatch == InitBatch /\ [][NextBatch]_vars

\* two processes share the data directory; each calls get_entities on single
\* identifiers, their steps interleave
NextRace ==
  \/ RaceCall
  \/ GetNonLocalIds
  \/ FetchBatch
  \/ OpenFile
  \/ DumpFile
  \/ NextChunk
  \/ StartRead
  \/ ReadLocal
  \/ ReturnDirect
  \/ PeerCall
  \/ PeerGetNonLocalIds
  \/ PeerFetchBatch
  \/ PeerOpenFile
  \/ PeerDumpFile
  \/ PeerNextChunk
  \/ PeerStartRead
  \/ PeerReadLocal
  \/ PeerReturn

SpecRace == InitBatch /\ [][NextRace]_vars

\* the driver calls get_entities with short lists, constructs entities and
\* iterates their claims
Init == InitWith(ClaimLists)

\* the steps of the program itself, as opposed to the driver's choices, when
\* the driver constructs entities and iterates their claims
EntityStep ==
  \/ GetNonLocalIds
  \/ FetchBatch
  \/ OpenFile
  \/ DumpFile
  \/ NextChunk
  \/ StartRead
  \/ ReadLocal
  \/ ReturnLoadEntity
  \/ ReturnLoadDependencies
  \/ ParseSnak
  \/ ReturnSnakProperty
  \/ ReturnSnakValue
  \/ YieldClaim
  \/ EndClaims

Next ==
  \/ DirectCall
  \/ ReturnDirect
  \/ NewEntity
  \/ StartClaims
  \/ EntityStep

Spec == Init /\ [][Next]_vars

\* the driver of lines 198-205: it constructs entities and iterates their
\* claims, and never calls get_entities itself
NextEntity ==
  \/ NewEntity
  \/ StartClaims
  \/ EntityStep

SpecEntity == Init /\ [][NextEntity]_vars

\* every call is synchronous and blocking: a started operation runs on
FairSpecEntity == SpecEntity /\ WF_vars(EntityStep)

TypeOK ==
  /\ pc \in {"idle", "scan", "fetch", "store", "dump", "read"}
  /\ top \in {"idle", "direct", "init", "claims"}
  /\ ops \in 0..MaxOps

\* ----------------------------------------------------------------- claims
\* the record the remote service serves for identifier i, as it reads back
\* from the cache
ServedDocument(i) == JsonRoundTrip(remote[i])

\* C1: a get_entities(ids) call that returns normally returns a list of the
\* length of ids whose i-th element is the document of ids[i], whatever the
\* repetitions in ids and whichever identifiers were cached before the call.
C1_OrderPreserved ==
  ReadDone =>
    /\ Len(entities) = Len(ids)
    /\ \A i \in 1..Len(ids) :
         /\ entities[i].id = ids[i]
         /\ remote[ids[i]].kind = "entity" => entities[i] = ServedDocument(ids[i])

\* a call [X, Y, X] is about to return, X was cached before the call, Y not
C1_Witness ==
  /\ ReadDone
  /\ Len(ids) = 3
  /\ ids[1] = ids[3]
  /\ ids[1] # ids[2]
  /\ ids[1] \in presentAtCall
  /\ ids[2] \notin presentAtCall
  /\ entities[2] = ServedDocument(ids[2])

\* C2: when at least one identifier of the call is not cached, every chunk of
\* the missing identifiers has been requested and its documents written
\* before the first cache read of the call; no read happens while a chunk is
\* unfetched.
C2_FetchBeforeRead ==
  (pc = "read" /\ nonlocal_ids # <<>>) =>
    /\ reqLog = batches(nonlocal_ids)
    /\ pending = <<>>
    /\ \A i \in Elems(nonlocal_ids) :
         remote[i].kind = "entity" => cache[i] = FullFile(ServedDocument(i))

\* the first cache read of a call that had two chunks to fetch
C2_Witness ==
  /\ pc = "read"
  /\ entities = <<>>
  /\ Len(batches(nonlocal_ids)) = 2
  /\ Len(reqLog) = 2

\* C3: a get_entities call all of whose identifiers were arguments of earlier
\* calls that returned normally issues no remote request and writes nothing.
C3_SecondCallLocal ==
  (pc # "idle" /\ Elems(ids) \subseteq resolved) =>
    /\ reqLog = <<>>
    /\ pc \notin {"store", "dump"}
    /\ Present(cache) = presentAtCall

\* the second call with the identifiers of a call that returned is reading
C3_Witness ==
  /\ pc = "read"
  /\ ids # <<>>
  /\ Elems(ids) = resolved
  /\ Len(entities) = Len(ids)
  /\ reqLog = <<>>

RECURSIVE Flatten(_)
Flatten(ss) == IF ss = <<>> THEN <<>> ELSE Head(ss) \o Flatten(Tail(ss))

NoDuplicates(s) == \A i, j \in 1..Len(s) : s[i] = s[j] => i = j

RECURSIVE Dedup(_, _)
Dedup(s, seen) ==
  IF s = <<>> THEN <<>>
  ELSE IF Head(s) \in seen THEN Dedup(Tail(s), seen)
       ELSE <<Head(s)>> \o Dedup(Tail(s), seen \cup {Head(s)})

\* the identifiers of the call that were absent when it began
MissingAtCall == Elems(ids) \ presentAtCall

\* C4: a call in which N identifiers are absent from the cache issues exactly
\* ceil(N/50) requests, each of at most 50 identifiers, the chunks in order,
\* and the identifiers requested are exactly the absent ones.
C4_BatchCount ==
  pc = "read" =>
    LET N == Cardinality(MissingAtCall)
    IN /\ Len(reqLog) = (N + WIKIBASE_API_MAX_IDS - 1) \div WIKIBASE_API_MAX_IDS
       /\ \A k \in 1..Len(reqLog) : Len(reqLog[k]) <= WIKIBASE_API_MAX_IDS
       /\ Dedup(Flatten(reqLog), {})
            = Dedup(SelectSeq(ids, LAMBDA i : i \notin presentAtCall), {})
       /\ Elems(Flatten(reqLog)) = MissingAtCall

\* C5: no identifier appears twice among the identifiers a call sends to the
\* remote service.
C5_NoRefetch == NoDuplicates(Flatten(reqLog))

\* C6: a cache record that exists is never written again or overwritten.
C6_WriteOnce ==
  [][\A i \in Ids : cache[i].state = "full" => cache'[i] = cache[i]]_vars

\* C7: a call that requests an identifier absent from the remote graph does
\* not return normally, and no returned element is the error marker.
C7_MissingFails ==
  ReadDone =>
    \A k \in 1..Len(ids) :
      remote[ids[k]].kind = "entity" /\ entities[k].kind # "missing"

\* C8: when the request of chunk k fails, the call fails without returning
\* documents, chunk k is requested once and no later chunk is requested.
C8_FetchFailureAborts ==
  failedAt > 0 =>
    /\ pc = "idle"
    /\ top = "idle"
    /\ outcome = "raised"
    /\ result = <<>>
    /\ entities = <<>>
    /\ Len(reqLog) = failedAt
    /\ \A j \in 1..failedAt : reqLog[j] = batches(nonlocal_ids)[j]

\* the request of the first of two chunks has failed
C8_Witness ==
  /\ failedAt = 1
  /\ Len(batches(nonlocal_ids)) = 2
  /\ outcome = "raised"

\* C9: iterating the claims of an entity constructed with deep=True issues no
\* remote request.
C9_DeepWarmsCache == entity.deep => ~renderFetched

\* the claims of a deep entity have been iterated to the end, with property
\* and referenced item resolved for a mainsnak or a qualifier
C9_Witness ==
  /\ entity.deep
  /\ top = "idle"
  /\ outcome = "returned"
  /\ rendered # <<>>
  /\ nested >= 2

RECURSIVE SnakCount(_)
SnakCount(claims) ==
  IF claims = <<>> THEN 0
  ELSE 1 + Len(Head(claims).qualifiers) + SnakCount(Tail(claims))

References(data, i) ==
  \E k \in 1..Len(data.claims) :
    \/ data.claims[k].mainsnak.value.id = i
    \/ \E q \in 1..Len(data.claims[k].qualifiers) :
         data.claims[k].qualifiers[q].value.id = i

\* C10: iterating the claims of an entity ends, also when the data is cyclic:
\* only one claims generator ever runs and it constructs at most two entities
\* per snak.
C10_RenderTerminates ==
  /\ [](top = "claims" =>
          /\ Len(rstack) = 1
          /\ nested <= 2 * SnakCount(entity.data.claims))
  /\ (top = "claims") ~> (top = "idle")

\* the claims of ItemA, which reference ItemB whose claims reference ItemA,
\* have been iterated to the end
C10_Witness ==
  /\ top = "idle"
  /\ outcome = "returned"
  /\ rendered # <<>>
  /\ entity.data.id = ItemA
  /\ References(entity.data, ItemB)
  /\ cache[ItemB].state = "full"
  /\ References(cache[ItemB].doc, ItemA)

\* the snak has an interesting datatype and snaktype value
Displayable(snak) ==
  snak.datatype \in INTERESTING_DATA_TYPES /\ snak.snaktype = "value"

\* the tuple a displayable snak stands for: the label of its property, and
\* the label of the referenced entity or the raw string of the value
RawString(snak) ==
  IF snak.datatype = WIKIBASE_ITEM_DATA_TYPE THEN remote[snak.value.id].label
  ELSE snak.value.text

ExpectedTuple(snak) ==
  Tuple(remote[snak.property].label, [shape |-> "str", text |-> RawString(snak)])

RECURSIVE ExpectedTuples(_)
ExpectedTuples(snaks) ==
  IF snaks = <<>> THEN <<>>
  ELSE (IF Displayable(Head(snaks)) THEN <<ExpectedTuple(Head(snaks))>> ELSE <<>>)
       \o ExpectedTuples(Tail(snaks))

\* C11: for a snak with snaktype value and an interesting datatype, parse_snak
\* returns the label of the snak's property and, as the value, the label of
\* the referenced entity (item reference), the amount string (quantity), the
\* time string (time) or the string itself (string).
C11_ParsedValues ==
  (top = "claims" /\ InClaim(rstack[1]) /\ rstack[1].snakIdx >= 1) =>
    LET f == rstack[1]
    IN /\ f.main = ExpectedTuple(CurClaim(f).mainsnak)
       /\ \A k \in 1..Len(f.quals) :
            \E q \in 1..Len(CurClaim(f).qualifiers) :
              /\ Displayable(CurClaim(f).qualifiers[q])
              /\ f.quals[k] = ExpectedTuple(CurClaim(f).qualifiers[q])

\* the Statements of a document whose mainsnak is displayable, in the order
\* of the document
Survivors(claims) == SelectSeq(claims, LAMBDA c : Displayable(c.mainsnak))

\* C12: the claims sequence of an entity holds exactly one element per
\* Statement whose mainsnak has an interesting datatype and snaktype value, in
\* the iteration order of the entity's document; a Statement whose mainsnak
\* has another datatype or no value contributes no element.
C12_ClaimsFiltered ==
  top = "claims" =>
    LET f == rstack[1]
        done == Survivors(SubSeq(f.data.claims, 1, f.claimIdx - 1))
    IN /\ f.data = entity.data
       /\ Len(f.out) = Len(done)
       /\ \A k \in 1..Len(done) :
            /\ f.out[k].property = ExpectedTuple(done[k].mainsnak).property
            /\ f.out[k].value.text = ExpectedTuple(done[k].mainsnak).value.text

\* the generator has gone through a document of four Statements: the one
\* with an external-id mainsnak was skipped, the three others were yielded
C12_Witness ==
  /\ top = "claims"
  /\ Len(rstack[1].data.claims) = 4
  /\ ~InClaim(rstack[1])
  /\ Len(rstack[1].out) = 3
  /\ \E k \in 1..4 : rstack[1].data.claims[k].mainsnak.datatype = "external-id"

\* C13: for a Statement whose mainsnak survives, every qualifier snak is
\* parsed in qualifier declaration order, the results other than None are
\* attached in that order as the third element of the yielded tuple, and the
\* tuple has two elements when no qualifier survives.
C13_QualifiersAttached ==
  top = "claims" =>
    LET f == rstack[1]
        done == Survivors(SubSeq(f.data.claims, 1, f.claimIdx - 1))
    IN /\ Len(f.out) = Len(done)
       /\ \A k \in 1..Len(done) :
            /\ f.out[k].qualifiers = ExpectedTuples(done[k].qualifiers)
            /\ f.out[k].arity = IF ExpectedTuples(done[k].qualifiers) = <<>> THEN 2 ELSE 3
       /\ (InClaim(f) /\ f.snakIdx >= 1) =>
            f.quals = ExpectedTuples(SubSeq(CurClaim(f).qualifiers, 1, f.snakIdx - 1))

\* the generator has yielded a tuple of three elements for a Statement with
\* three qualifiers, declared in another order than the sorted keys, of which
\* two survive, and a tuple of two elements for a Statement whose qualifiers
\* all parse to None
C13_Witness ==
  /\ top = "claims"
  /\ ~InClaim(rstack[1])
  /\ \E k \in 1..Len(rstack[1].out) :
       /\ rstack[1].out[k].arity = 3
       /\ Len(rstack[1].out[k].qualifiers) = 2
       /\ Survivors(rstack[1].data.claims)[k].qualifiers
            # QualifierValues(Survivors(rstack[1].data.claims)[k])
       /\ Len(Survivors(rstack[1].data.claims)[k].qualifiers) = 3
  /\ \E k \in 1..Len(rstack[1].out) :
       /\ rstack[1].out[k].arity = 2
       /\ Survivors(rstack[1].data.claims)[k].qualifiers # <<>>

\* what the remote service returns for identifier i when it lists it
Returned(i) == IF remote[i].kind = "entity" THEN remote[i] ELSE MissingMarker(i)

\* C14: in every reachable state, the states inside a fetch included, every
\* record the existence check reports as present holds the complete document
\* the remote service returned for its identifier.
C14_NoPartialRecords ==
  \A i \in Ids :
    Exists(cache, i) => cache[i] = FullFile(JsonRoundTrip(Returned(i)))

\* C15: constructing Entity(id, deep=True) on a well-formed document does not
\* fail in dependency extraction, also when the document holds a Statement
\* whose item-reference mainsnak has snaktype novalue or somevalue: when
\* load_entity has returned the document, the construction goes on.
C15_DeepLoadHandlesNoValue ==
  [][(ReadDone /\ ctx = "load_entity" /\ self.deep /\ entities[1].kind = "entity")
       => outcome' = "running"]_vars

\* C16: with two processes on one data directory the first write is not
\* guarded: a process that found an identifier missing requests it and writes
\* its record, whatever the other process has written in between; both
\* processes can find the same identifier missing, request it and write it.
C16_FirstWriteUnguarded ==
  /\ pc = "read" =>
       \A i \in Elems(nonlocal_ids) :
         remote[i].kind = "entity" => i \in Elems(Flatten(reqLog)) /\ i \in written
  /\ peer.pc = "read" =>
       \A i \in Elems(peer.nonlocal_ids) :
         remote[i].kind = "entity" =>
           i \in Elems(Flatten(peer.reqLog)) /\ i \in peer.written

\* both processes, each inside a call, have found ItemA missing, requested it
\* and written its record
C16_Witness ==
  /\ pc = "read"
  /\ peer.pc = "read"
  /\ ItemA \in Elems(nonlocal_ids) \cap Elems(peer.nonlocal_ids)
  /\ ItemA \in Elems(Flatten(reqLog)) \cap Elems(Flatten(peer.reqLog))
  /\ ItemA \in written \cap peer.written
====
